---- MODULE Spec2Model ----
(***************************************************************************)
(* Model of news_scraper.py: the tracking store (load / prune / duplicate  *)
(* check / append / persist) and the control loop of main().               *)
(*                                                                         *)
(* Abstractions:                                                           *)
(*  - an article URL is a number in URLs; sorted() order is numeric order. *)
(*  - the (title, body) pair of a page is identified with its SHA-256      *)
(*    digest, a number in Hashes (collisions are not modelled).            *)
(*  - a stored entry is [isdict, url, content_hash, sent_at]; 0 stands for *)
(*    a missing / null / foreign value of "url" or "content_hash"; the     *)
(*    "title" key is written but never read, so it is left out.            *)
(*  - a sent_at value is [kind, t, z]: kind "none" (key missing or null),  *)
(*    "nonstr" (a truthy non-string such as a number), "bad" (a string     *)
(*    that is not ISO-8601), "naive" (ISO-8601 without offset) or "aware"  *)
(*    (ISO-8601 with a UTC offset); t is the instant in clock units and z  *)
(*    says whether the string ends in "Z".                                 *)
(*  - the clock counts units of 1/SubSec second.                           *)
(***************************************************************************)
EXTENDS Integers, Sequences, FiniteSets, TLC

\* ---------------------------------------------------------------- bounds
NumUrls == 2
NumHashes == 2
MaxCandidates == 2
MaxTicks == 1
SubSec == 2
MaxLen == 2

\* ------------------------------------------------------------- constants
RETENTION_DAYS == 7
SecPerDay == 86400

URLs == 1..NumUrls
Hashes == 1..NumHashes
Day == SecPerDay * SubSec
Retention == RETENTION_DAYS * Day
\* time that may pass between two readings of the clock: none, or just
\* more than the retention window
ClockSteps == {0, Retention + 1}

Range(s) == {s[i] : i \in 1..Len(s)}

\* ------------------------------------------------------------ sent_at values
NoSentAt == [kind |-> "none", t |-> 0, z |-> FALSE]
NonStrSentAt == [kind |-> "nonstr", t |-> 0, z |-> FALSE]
BadSentAt == [kind |-> "bad", t |-> 0, z |-> FALSE]
NaiveSentAt(t, z) == [kind |-> "naive", t |-> t, z |-> z]
AwareSentAt(t) == [kind |-> "aware", t |-> t, z |-> FALSE]

Entry(u, h, s) == [isdict |-> TRUE, url |-> u, content_hash |-> h, sent_at |-> s]
NonDictEntry == [isdict |-> FALSE, url |-> 0, content_hash |-> 0, sent_at |-> NoSentAt]

\* dt.datetime.utcnow().replace(microsecond=0).isoformat() + "Z"
FormatNow(now) == NaiveSentAt(now - (now % SubSec), TRUE)

\* sent_at_str.rstrip("Z") followed by dt.datetime.fromisoformat(ts):
\* result "ValueError", or a naive / aware datetime at instant t.
ParseSentAt(s) ==
    IF s.kind = "naive" THEN [res |-> "naive", t |-> s.t]
    ELSE IF s.kind = "aware" THEN [res |-> "aware", t |-> s.t]
    ELSE [res |-> "ValueError", t |-> 0]

\* ------------------------------------------------------------ file values
File(kind, articles) == [kind |-> kind, articles |-> articles]
EmptyStoreKinds ==
    {"absent", "empty", "oserror", "notjson", "json_nondict",
     "json_noarticles", "json_articles_nonlist"}
FileKinds == EmptyStoreKinds \cup {"undecodable", "json_ok"}

_empty_store == << >>

\* load_sent_articles: [raised, articles]
load_sent_articles(f) ==
    IF f.kind = "absent" THEN [raised |-> FALSE, articles |-> _empty_store]
    ELSE IF f.kind = "undecodable" THEN [raised |-> TRUE, articles |-> << >>]
    ELSE IF f.kind \in {"empty", "oserror", "notjson"}
         THEN [raised |-> FALSE, articles |-> _empty_store]
    ELSE IF f.kind = "json_ok" THEN [raised |-> FALSE, articles |-> f.articles]
    ELSE [raised |-> FALSE, articles |-> _empty_store]

\* one iteration of the loop of cleanup_old_articles on entry a:
\* "raise" (AttributeError / TypeError), "keep" or "drop".
CleanupStep(a, cutoff) ==
    IF ~a.isdict THEN "raise"
    ELSE IF a.sent_at.kind \in {"none", "nonstr"} THEN "keep"
    ELSE LET p == ParseSentAt(a.sent_at) IN
         IF p.res = "ValueError" THEN "keep"
         ELSE IF p.res = "aware" THEN "raise"
         ELSE IF p.t >= cutoff THEN "keep" ELSE "drop"

RECURSIVE CleanupLoop(_, _, _, _)
CleanupLoop(articles, i, cutoff, cleaned) ==
    IF i > Len(articles) THEN [raised |-> FALSE, articles |-> cleaned]
    ELSE LET step == CleanupStep(articles[i], cutoff) IN
         IF step = "raise" THEN [raised |-> TRUE, articles |-> << >>]
         ELSE IF step = "keep"
              THEN CleanupLoop(articles, i + 1, cutoff, Append(cleaned, articles[i]))
              ELSE CleanupLoop(articles, i + 1, cutoff, cleaned)

\* cleanup_old_articles(store, retention_days) read at clock value now
cleanup_old_articles(articles, retention_days, now) ==
    CleanupLoop(articles, 1, now - retention_days * Day, << >>)

\* is_article_sent: [raised, dup, kind, on]; kind says which comparison
\* produced the reason, on is the sent_at shown in it (NoSentAt stands for
\* the "previously" wording chosen when sent_at is falsy).
NotSent == [raised |-> FALSE, dup |-> FALSE, kind |-> "none", on |-> NoSentAt]
Sent(kind, on) == [raised |-> FALSE, dup |-> TRUE, kind |-> kind, on |-> on]
SentRaised == [raised |-> TRUE, dup |-> FALSE, kind |-> "none", on |-> NoSentAt]

RECURSIVE SentLoop(_, _, _, _)
SentLoop(url, content_hash, articles, i) ==
    IF i > Len(articles) THEN NotSent
    ELSE LET article == articles[i] IN
         IF ~article.isdict THEN SentRaised
         ELSE IF article.url = url THEN Sent("url", article.sent_at)
         ELSE IF article.content_hash = content_hash THEN Sent("content", article.sent_at)
         ELSE SentLoop(url, content_hash, articles, i + 1)

\* variants of is_article_sent with a slip in the scan
\* - only the URL is compared
RECURSIVE SentLoop_UrlOnly(_, _, _)
SentLoop_UrlOnly(url, articles, i) ==
    IF i > Len(articles) THEN NotSent
    ELSE IF articles[i].url = url THEN Sent("url", articles[i].sent_at)
    ELSE SentLoop_UrlOnly(url, articles, i + 1)
is_article_sent_UrlOnly(url, content_hash, articles) ==
    SentLoop_UrlOnly(url, articles, 1)

\* - a record counts only when both its URL and its hash are equal
RECURSIVE SentLoop_BothMatch(_, _, _, _)
SentLoop_BothMatch(url, content_hash, articles, i) ==
    IF i > Len(articles) THEN NotSent
    ELSE IF articles[i].url = url /\ articles[i].content_hash = content_hash
         THEN Sent("url", articles[i].sent_at)
    ELSE SentLoop_BothMatch(url, content_hash, articles, i + 1)
is_article_sent_BothMatch(url, content_hash, articles) ==
    SentLoop_BothMatch(url, content_hash, articles, 1)

\* - the hash of a record is compared before its URL
RECURSIVE SentLoop_HashFirst(_, _, _, _)
SentLoop_HashFirst(url, content_hash, articles, i) ==
    IF i > Len(articles) THEN NotSent
    ELSE IF articles[i].content_hash = content_hash
         THEN Sent("content", articles[i].sent_at)
    ELSE IF articles[i].url = url THEN Sent("url", articles[i].sent_at)
    ELSE SentLoop_HashFirst(url, content_hash, articles, i + 1)
is_article_sent_HashFirst(url, content_hash, articles) ==
    SentLoop_HashFirst(url, content_hash, articles, 1)

\* - the final return sits inside the loop: only the first record is looked at
is_article_sent_FirstOnly(url, content_hash, articles) ==
    IF Len(articles) = 0 THEN NotSent
    ELSE IF articles[1].url = url THEN Sent("url", articles[1].sent_at)
    ELSE IF articles[1].content_hash = content_hash
         THEN Sent("content", articles[1].sent_at)
    ELSE NotSent

is_article_sent(url, content_hash, articles) ==
    SentLoop(url, content_hash, articles, 1)

\* variant of save_sent_article that appends nothing
save_sent_article_Forgotten(url, content_hash, articles, now) == articles

\* save_sent_article: the articles list after the append, read at clock now
save_sent_article(url, content_hash, articles, now) ==
    Append(articles, Entry(url, content_hash, FormatNow(now)))

\* save_sent_articles_to_file: the file after path.write_text(...).  An
\* OSError is swallowed; it leaves the file as it was when open() failed and
\* truncated when the write after open() failed.
WriteOutcomes == {"ok", "fail_unchanged", "fail_truncated"}
save_sent_articles_to_file(articles, f, outcome) ==
    IF outcome = "ok" THEN File("json_ok", articles)
    ELSE IF outcome = "fail_truncated" THEN File("empty", << >>)
    ELSE f

\* send_telegram_message: TRUE iff the call raises.  requests.post raises on
\* a network failure; an HTTPError from raise_for_status() is caught inside.
SendOutcomes == {"ok", "http_error", "network_error"}
send_telegram_message(outcome) == outcome = "network_error"

\* sorted(links) for a set of URLs
RECURSIVE sorted(_)
sorted(S) ==
    IF S = {} THEN << >>
    ELSE LET m == CHOOSE x \in S : \A y \in S : x <= y
         IN <<m>> \o sorted(S \ {m})

\* ------------------------------------------------------------------ state
VARIABLES
    file,           \* sent_articles.json
    store,          \* sent_store["articles"] of the running process
    pc,             \* position of main()
    clock,          \* UTC clock
    ticks,          \* number of clock advances so far
    processed,      \* number of candidates discovered so far, over all runs
    links,          \* article_links
    idx,            \* loop index (1-based)
    cur,            \* content_hash of the current candidate
    sent_count, skipped_count, error_count,
    status,         \* history: terminal state of each candidate
    hashOf,         \* history: content_hash extracted for each candidate
    disp,           \* history: outcome of send_telegram_message per candidate
    reason,         \* history: kind of the skip reason per candidate
    sentNow,        \* history: entries appended by this run and not pruned
    sentBefore,     \* history: entries appended by earlier runs and not pruned
    lost,           \* history: entries of sentBefore that a failed write
                    \*          kept out of (or removed from) the file
    pruneIn,        \* SpecPrune: store and clock given to cleanup_old_articles
    pruneOut,       \* SpecPrune: its result
    pruneCount,     \* history: cleanup_old_articles calls completed this run
    lastWrite,      \* history: outcome of the last write of this run
    finalSaved      \* history: the write at line 460 was attempted

vars == <<file, store, pc, clock, ticks, processed, links, idx, cur,
          sent_count, skipped_count, error_count, status, hashOf, disp,
          reason, sentNow, sentBefore, lost, pruneIn, pruneOut, pruneCount,
          lastWrite, finalSaved>>

counters == <<sent_count, skipped_count, error_count>>
perCand == <<status, hashOf, disp, reason>>
pruneHist == <<pruneIn, pruneOut, pruneCount>>
sentHist == <<sentNow, sentBefore, lost>>

\* sent_at values and entries a file may hold before the first run
InitSentAts ==
    {NoSentAt, NonStrSentAt, BadSentAt, AwareSentAt(0),
     NaiveSentAt(0, TRUE), NaiveSentAt(0, FALSE)}
InitEntries ==
    {NonDictEntry, Entry(0, 0, NoSentAt)} \cup
    {Entry(NumUrls, NumHashes, s) : s \in InitSentAts}
InitFiles ==
    {File(k, << >>) : k \in FileKinds} \cup
    {File("json_ok", <<e>>) : e \in InitEntries} \cup
    {File("json_ok", <<Entry(1, 1, NaiveSentAt(0, TRUE)),
                       Entry(NumUrls, NumHashes, NaiveSentAt(0, TRUE))>>)}

NoPrune == [raised |-> FALSE, articles |-> << >>]

InitRest ==
    /\ store = << >>
    /\ pc = "start"
    /\ ticks = 0
    /\ processed = 0
    /\ links = << >>
    /\ idx = 0
    /\ cur = 0
    /\ sent_count = 0 /\ skipped_count = 0 /\ error_count = 0
    /\ status = << >> /\ hashOf = << >> /\ disp = << >> /\ reason = << >>
    /\ sentNow = {} /\ sentBefore = {} /\ lost = {}
    /\ pruneIn = [articles |-> << >>, now |-> 0]
    /\ pruneOut = NoPrune
    /\ pruneCount = 0
    /\ lastWrite = "none"
    /\ finalSaved = FALSE

\* a fresh deployment: no tracking file yet
Init ==
    /\ file = File("absent", << >>)
    /\ clock = 1
    /\ InitRest

\* one run of main() over any tracking file it may find
InitRun ==
    /\ file \in InitFiles
    /\ clock = 1
    /\ InitRest

\* the clock read by utcnow(): time d has passed since the last reading
ReadClock(d) ==
    /\ d \in ClockSteps
    /\ d # 0 => ticks < MaxTicks
    /\ clock' = clock + d
    /\ ticks' = IF d = 0 THEN ticks ELSE ticks + 1

\* main, lines 412-414: load_sent_articles, then cleanup_old_articles
LoadAndPrune ==
    /\ pc = "start"
    /\ \E d \in ClockSteps :
        /\ ReadClock(d)
        /\ LET ld == load_sent_articles(file)
               cl == cleanup_old_articles(ld.articles, RETENTION_DAYS, clock + d)
           IN IF ld.raised
              THEN /\ pc' = "crashed"
                   /\ UNCHANGED <<store, pruneCount, sentBefore>>
              ELSE IF cl.raised
              THEN /\ pc' = "crashed"
                   /\ UNCHANGED <<store, pruneCount, sentBefore>>
              ELSE /\ pc' = "fetch_archive"
                   /\ store' = cl.articles
                   /\ pruneCount' = 1
                   /\ sentBefore' = sentBefore \ (Range(ld.articles) \ Range(cl.articles))
    /\ UNCHANGED <<file, processed, links, idx, cur, counters, perCand, sentNow,
                   lost, pruneIn, pruneOut, lastWrite, finalSaved>>

\* main, lines 419-432: extract_article_links and the loop set-up
FetchArchive ==
    /\ pc = "fetch_archive"
    /\ \/ /\ pc' = "exit_fail"
          /\ UNCHANGED <<links, idx, perCand, processed>>
       \/ \E S \in SUBSET URLs :
            /\ processed + Cardinality(S) <= MaxCandidates
            /\ processed' = processed + Cardinality(S)
            /\ links' = sorted(S)
            /\ IF S = {}
               THEN pc' = "done" /\ UNCHANGED <<idx, perCand>>
               ELSE /\ pc' = "extract"
                    /\ idx' = 1
                    /\ status' = [i \in 1..Cardinality(S) |-> "pending"]
                    /\ hashOf' = [i \in 1..Cardinality(S) |-> 0]
                    /\ disp' = [i \in 1..Cardinality(S) |-> "none"]
                    /\ reason' = [i \in 1..Cardinality(S) |-> "none"]
    /\ UNCHANGED <<file, store, clock, ticks, cur, counters, sentHist,
                   pruneHist, lastWrite, finalSaved>>

\* the for statement: next candidate, or fall out of the loop
Advance ==
    /\ idx' = idx + 1
    /\ pc' = IF idx < Len(links) THEN "extract" ELSE "final_prune"

\* variant of the loop body without the except clause: the exception
\* leaves main()
CandidateError_Raise ==
    /\ pc' = "crashed"
    /\ UNCHANGED <<idx, status, sent_count, skipped_count, error_count>>

\* main, lines 454-456: the except clause of the loop body
CandidateError ==
    /\ error_count' = error_count + 1
    /\ status' = [status EXCEPT ![idx] = "ERRORED"]
    /\ Advance
    /\ UNCHANGED <<sent_count, skipped_count>>

\* main, lines 436-437: extract_article_content and generate_content_hash
Extract ==
    /\ pc = "extract"
    /\ \/ /\ CandidateError
          /\ UNCHANGED <<cur, hashOf>>
       \/ \E h \in Hashes :
            /\ cur' = h
            /\ hashOf' = [hashOf EXCEPT ![idx] = h]
            /\ pc' = "check"
            /\ UNCHANGED <<idx, counters, status>>
    /\ UNCHANGED <<file, store, clock, ticks, processed, links, disp, reason,
                   sentHist, pruneHist, lastWrite, finalSaved>>

\* main, lines 439-444: the duplicate check
Check ==
    /\ pc = "check"
    /\ LET r == is_article_sent(links[idx], cur, store) IN
       IF r.raised
       THEN CandidateError /\ UNCHANGED reason
       ELSE IF r.dup
       THEN /\ skipped_count' = skipped_count + 1
            /\ status' = [status EXCEPT ![idx] = "SKIPPED"]
            /\ reason' = [reason EXCEPT ![idx] = r.kind]
            /\ Advance
            /\ UNCHANGED <<sent_count, error_count>>
       ELSE /\ pc' = "send"
            /\ UNCHANGED <<idx, counters, status, reason>>
    /\ UNCHANGED <<file, store, clock, ticks, processed, links, cur, hashOf, disp,
                   sentHist, pruneHist, lastWrite, finalSaved>>

\* main, lines 446-447: build_message and send_telegram_message
Dispatch ==
    /\ pc = "send"
    /\ \E o \in SendOutcomes :
        /\ disp' = [disp EXCEPT ![idx] = o]
        /\ IF send_telegram_message(o)
           THEN CandidateError
           ELSE pc' = "append" /\ UNCHANGED <<idx, counters, status>>
    /\ UNCHANGED <<file, store, clock, ticks, processed, links, cur, hashOf, reason,
                   sentHist, pruneHist, lastWrite, finalSaved>>

\* main, line 449: save_sent_article
AppendRecord ==
    /\ pc = "append"
    /\ \E d \in ClockSteps :
        /\ ReadClock(d)
        /\ store' = save_sent_article(links[idx], cur, store, clock + d)
        /\ sentNow' = sentNow \cup {Entry(links[idx], cur, FormatNow(clock + d))}
    /\ pc' = "persist"
    /\ UNCHANGED <<file, processed, links, idx, cur, counters, perCand, sentBefore,
                   lost, pruneHist, lastWrite, finalSaved>>

\* main, line 450: save_sent_articles_to_file
Persist ==
    /\ pc = "persist"
    /\ \E w \in WriteOutcomes :
        /\ file' = save_sent_articles_to_file(store, file, w)
        /\ lastWrite' = w
    /\ pc' = "count"
    /\ UNCHANGED <<store, clock, ticks, processed, links, idx, cur, counters,
                   perCand, sentHist, pruneHist, finalSaved>>

\* main, lines 452-453: the candidate is counted as sent
Count ==
    /\ pc = "count"
    /\ sent_count' = sent_count + 1
    /\ status' = [status EXCEPT ![idx] = "SENT"]
    /\ Advance
    /\ UNCHANGED <<skipped_count, error_count>>
    /\ UNCHANGED <<file, store, clock, ticks, processed, links, cur, hashOf, disp,
                   reason, sentHist, pruneHist, lastWrite, finalSaved>>

\* main, line 459: the final cleanup_old_articles
FinalPrune ==
    /\ pc = "final_prune"
    /\ \E d \in ClockSteps :
        /\ ReadClock(d)
        /\ LET cl == cleanup_old_articles(store, RETENTION_DAYS, clock + d) IN
            IF cl.raised
            THEN pc' = "crashed" /\ UNCHANGED <<store, pruneCount, sentNow, sentBefore>>
            ELSE /\ pc' = "final_save"
                 /\ store' = cl.articles
                 /\ pruneCount' = pruneCount + 1
                 /\ sentNow' = sentNow \ (Range(store) \ Range(cl.articles))
                 /\ sentBefore' = sentBefore \ (Range(store) \ Range(cl.articles))
    /\ UNCHANGED <<file, processed, links, idx, cur, counters, perCand, lost,
                   pruneIn, pruneOut, lastWrite, finalSaved>>

\* main, line 460: the final save_sent_articles_to_file
FinalSave ==
    /\ pc = "final_save"
    /\ \E w \in WriteOutcomes :
        /\ file' = save_sent_articles_to_file(store, file, w)
        /\ lastWrite' = w
    /\ finalSaved' = TRUE
    /\ pc' = "done"
    /\ UNCHANGED <<store, clock, ticks, processed, links, idx, cur, counters,
                   perCand, sentHist, pruneHist>>

\* the process has ended; the scheduler starts main() again
NextRun ==
    /\ pc \in {"done", "crashed", "exit_fail"}
    /\ pc' = "start"
    /\ store' = << >>
    /\ links' = << >>
    /\ idx' = 0
    /\ cur' = 0
    /\ sent_count' = 0 /\ skipped_count' = 0 /\ error_count' = 0
    /\ status' = << >> /\ hashOf' = << >> /\ disp' = << >> /\ reason' = << >>
    /\ sentBefore' = sentBefore \cup sentNow
    /\ sentNow' = {}
    /\ lost' = (IF lastWrite \in {"fail_unchanged", "fail_truncated"}
                THEN sentBefore \cup sentNow ELSE lost)
                \ Range(load_sent_articles(file).articles)
    /\ pruneCount' = 0
    /\ lastWrite' = "none"
    /\ finalSaved' = FALSE
    /\ UNCHANGED <<file, clock, ticks, processed, pruneIn, pruneOut>>

RunStep ==
    \/ LoadAndPrune \/ FetchArchive \/ Extract \/ Check \/ Dispatch
    \/ AppendRecord \/ Persist \/ Count \/ FinalPrune \/ FinalSave

Next == RunStep \/ NextRun

Spec == Init /\ [][Next]_vars

SpecRun == InitRun /\ [][RunStep]_vars

\* every step of main() terminates (each network call has a timeout), so a
\* started run keeps stepping until it ends
FairSpecRun == SpecRun /\ WF_vars(RunStep)

\* ------------------------------------------- cleanup_old_articles alone
PruneSentAts ==
    {NoSentAt, NonStrSentAt, BadSentAt, AwareSentAt(0),
     NaiveSentAt(0, TRUE), NaiveSentAt(0, FALSE), NaiveSentAt(Day, TRUE)}
PruneEntries == {Entry(1, 1, s) : s \in PruneSentAts}
PruneStores ==
    UNION {[1..n -> PruneEntries] : n \in 0..MaxLen}
PruneClocks == {Retention - 1, Retention, Retention + 1, Retention + Day + 1}

InitPrune ==
    /\ file = File("absent", << >>)
    /\ clock \in PruneClocks
    /\ InitRest

PruneOnly ==
    /\ pc = "start"
    /\ \E st \in PruneStores :
        /\ pruneIn' = [articles |-> st, now |-> clock]
        /\ pruneOut' = cleanup_old_articles(st, RETENTION_DAYS, clock)
    /\ pc' = "pruned"
    /\ UNCHANGED <<file, store, clock, ticks, processed, links, idx, cur, counters,
                   perCand, sentHist, pruneCount, lastWrite, finalSaved>>

SpecPrune == InitPrune /\ [][PruneOnly]_vars

\* ------------------------------------------------------------ properties
LoopPcs == {"extract", "check", "send", "append", "persist", "count"}
\* the positions at which the store is the one the duplicate checks saw,
\* up to entries appended since
BeforeFinalPrune == LoopPcs \cup {"final_prune"}
Candidates == 1..Len(links)
Returned == {"ok", "http_error"}
Terminal == {"SKIPPED", "SENT", "ERRORED"}
HasRecord(articles, u, h) ==
    \E k \in 1..Len(articles) :
        articles[k].url = u /\ articles[k].content_hash = h

\* C1 as stated: once a candidate has been dispatched by an earlier run, a
\* later run dispatches no candidate with the same URL or the same
\* fingerprint unless the earlier record has been pruned.
C1_NoRedispatchUnlessPruned ==
    pc = "append" =>
        \A r \in sentBefore :
            r.url # links[idx] /\ r.content_hash # cur

\* C1 amended: a later run dispatches no candidate with the URL or the
\* fingerprint of a record appended by an earlier run, unless that record
\* has been pruned or a failed write of the tracking file kept it out of
\* the file (or truncated the file) before the later run loaded it.
C1_NoRedispatchUnlessPrunedOrLost ==
    pc = "append" =>
        \A r \in sentBefore \ lost :
            r.url # links[idx] /\ r.content_hash # cur

\* a later run has skipped a candidate whose record an earlier run appended
C1_Witness ==
    \E i \in Candidates :
        /\ status[i] = "SKIPPED"
        /\ \E r \in sentBefore \ lost :
              r.url = links[i] /\ r.content_hash = hashOf[i]

\* C2: a candidate whose dispatch failed at the transport level (non-2xx
\* answer or network failure) gets no record in the tracking store and is
\* not counted as SENT.
C2_FailedDispatchNotRecorded ==
    \A i \in Candidates :
        disp[i] \in {"http_error", "network_error"} =>
            /\ status[i] # "SENT"
            /\ \A r \in sentNow : r.url # links[i]

\* the first n candidates are each in one terminal state, the others in
\* none, and the three counters count them
C3_Counted(n) ==
    /\ sent_count + skipped_count + error_count = n
    /\ sent_count = Cardinality({i \in Candidates : status[i] = "SENT"})
    /\ skipped_count = Cardinality({i \in Candidates : status[i] = "SKIPPED"})
    /\ error_count = Cardinality({i \in Candidates : status[i] = "ERRORED"})
    /\ \A i \in Candidates : (i <= n) <=> (status[i] \in Terminal)
C3_Inv ==
    /\ pc = "crashed" => links = << >>
    /\ pc \in LoopPcs => C3_Counted(idx - 1)
    /\ (pc \in {"final_prune", "final_save", "done"} /\ links # << >>)
           => C3_Counted(Len(links))

\* C3: once the candidate list is obtained the run never aborts; every
\* candidate before the loop index is in exactly one terminal state, the
\* three counters count them, and the run goes on to its end, where
\* sent + skipped + errored is the number of candidates.
C3_EveryCandidateTerminal ==
    /\ []C3_Inv
    /\ (pc \in LoopPcs) ~> (pc = "done" /\ C3_Counted(Len(links)))

\* the loop went on after an error: a candidate was sent after another one
\* errored, and the run ended
C3_Witness ==
    /\ pc = "done"
    /\ \E i, j \in Candidates :
          i < j /\ status[i] = "ERRORED" /\ status[j] = "SENT"

\* C4: load followed by the start-of-run prune never raises, whatever the
\* tracking file holds, and the store is empty when the file is absent,
\* empty or not of the expected schema.
C4_LoadNeverAborts ==
    /\ pc # "crashed"
    /\ (pc = "fetch_archive" /\ file.kind \in EmptyStoreKinds) => store = << >>

\* sent_at is an ISO-8601 timestamp
C5_Timestamp(s) == s.kind \in {"naive", "aware"}

\* C5: prune removes exactly the records whose sent_at is a timestamp
\* strictly older than now - 7 days, keeps the others in order, and never
\* fails.
C5_PruneExact ==
    pc = "pruned" =>
        LET Keep(a) ==
                ~(C5_Timestamp(a.sent_at) /\ a.sent_at.t < pruneIn.now - Retention)
        IN pruneOut = [raised |-> FALSE,
                       articles |-> SelectSeq(pruneIn.articles, Keep)]

\* some record of the store has URL u or fingerprint h
C6_Match(u, h) ==
    \E r \in Range(store) : r.url = u \/ r.content_hash = h
C6_Answer ==
    \A u \in URLs, h \in Hashes :
        LET r == is_article_sent(u, h, store) IN
        /\ ~r.raised
        /\ r.dup <=> C6_Match(u, h)
        /\ ~r.dup => r.kind = "none"
C6_CheckStep ==
    pc = "check" =>
        /\ store' = store /\ file' = file
        /\ IF C6_Match(links[idx], cur)
           THEN status'[idx] = "SKIPPED" /\ reason'[idx] # "none"
           ELSE pc' = "send" /\ status'[idx] = "pending" /\ reason'[idx] = "none"

\* C6: the duplicate check answers true exactly when some record of the
\* store has the candidate's URL or some record has its fingerprint, gives
\* no reason when it answers false, and leaves the store and the file as
\* they are.
C6_IsDuplicate ==
    /\ [](pc \in LoopPcs => C6_Answer)
    /\ [][C6_CheckStep]_vars

\* a candidate at a new URL was skipped because a record has its fingerprint
C6_Witness ==
    \E i \in Candidates :
        /\ status[i] = "SKIPPED"
        /\ \A r \in Range(store) : r.url # links[i]
        /\ \E r \in Range(store) : r.content_hash = hashOf[i]

\* C7 as stated: whenever any record of the store has the candidate's URL
\* the reason is the URL reason; the content reason is reported only when
\* no record of the store has the candidate's URL.
C7_UrlReasonWheneverUrlStored ==
    pc \in BeforeFinalPrune =>
        \A i \in Candidates :
            reason[i] = "content" =>
                \A r \in Range(store) : r.url # links[i]

\* the index of the first record that has URL u or fingerprint h
C7_FirstMatch(u, h) ==
    CHOOSE k \in 1..Len(store) :
        /\ store[k].url = u \/ store[k].content_hash = h
        /\ \A j \in 1..(k - 1) : store[j].url # u /\ store[j].content_hash # h

\* C7 amended: the reason comes from the first record, in store order, that
\* has the candidate's URL or its fingerprint: the URL reason if that record
\* has the candidate's URL, the content reason otherwise.
C7_ReasonOfFirstMatch ==
    pc \in BeforeFinalPrune =>
        \A i \in Candidates :
            status[i] = "SKIPPED" =>
                LET k == C7_FirstMatch(links[i], hashOf[i]) IN
                reason[i] = IF store[k].url = links[i] THEN "url" ELSE "content"

\* both reasons applied to a skipped candidate and the URL reason was given
C7_Witness ==
    \E i \in Candidates :
        /\ reason[i] = "url"
        /\ \E r \in Range(store) :
              r.content_hash = hashOf[i] /\ r.url # links[i]

\* C8: a run whose archive fetch succeeded ends only after a second prune
\* and a final write of the store, however many candidates were found, and
\* the file then holds the pruned store when that write succeeded.
C8_FinalPruneAndPersist ==
    pc = "done" =>
        /\ pruneCount = 2
        /\ finalSaved
        /\ lastWrite = "ok" => file = File("json_ok", store)

\* C9: a candidate is counted as SENT only after its dispatch, the append of
\* its record and a write attempt, in that order; at every candidate
\* boundary each candidate counted as SENT has its record in the in-memory
\* store, and in the file when the last write succeeded.
C9_Boundary ==
    \A i \in Candidates :
        status[i] = "SENT" =>
            /\ HasRecord(store, links[i], hashOf[i])
            /\ lastWrite = "ok" =>
                  (file.kind = "json_ok" /\ HasRecord(file.articles, links[i], hashOf[i]))
C9_SentAfterAppendAndPersist ==
    /\ pc \in {"extract", "final_prune"} => C9_Boundary
    /\ pc \in {"check", "send", "append", "persist", "count"} => status[idx] = "pending"
    /\ pc = "append" => disp[idx] \in Returned
    /\ pc = "persist" => HasRecord(store, links[idx], cur)
    /\ pc = "count" => (HasRecord(store, links[idx], cur) /\ lastWrite # "none")
    /\ sent_count = Cardinality({i \in Candidates : status[i] = "SENT"})

\* the second candidate is about to be processed, the first was sent and
\* its record was written
C9_Witness ==
    /\ pc = "extract" /\ idx = 2
    /\ status[1] = "SENT" /\ lastWrite = "ok"

\* candidate i was dispatched and the later candidate j, now in a terminal
\* state, has the same fingerprint
C10_LaterSameHash(i, j) ==
    /\ i < j
    /\ disp[i] \in Returned
    /\ hashOf[i] # 0 /\ hashOf[j] = hashOf[i]
    /\ status[j] \in Terminal

\* C10 as stated: after a candidate has been dispatched, every later
\* candidate of the same run with the same fingerprint ends SKIPPED as a
\* content duplicate.
C10_SkippedAsContentDuplicate ==
    \A i, j \in Candidates :
        C10_LaterSameHash(i, j) =>
            status[j] = "SKIPPED" /\ reason[j] = "content"

\* C10 amended: two candidates of one run with the same fingerprint are
\* never both dispatched; the later one ends SKIPPED, as a content duplicate
\* or, when a record with its URL comes first in the store, as a URL
\* duplicate.
C10_SkippedAsDuplicate ==
    \A i, j \in Candidates :
        C10_LaterSameHash(i, j) =>
            /\ status[j] = "SKIPPED" /\ disp[j] = "none"
            /\ reason[j] \in {"url", "content"}
            /\ reason[j] = "url" =>
                  (pc \in BeforeFinalPrune => \E r \in Range(store) : r.url = links[j])

\* the second of two candidates with one fingerprint was skipped as a
\* content duplicate of the first, dispatched in the same run
C10_Witness ==
    \E i, j \in Candidates :
        /\ C10_LaterSameHash(i, j)
        /\ status[i] = "SENT"
        /\ status[j] = "SKIPPED" /\ reason[j] = "content"

====
